---- MODULE Spec2Model ----
(***************************************************************************)
(* Warehouse temperature monitor: the monitoring thread(s) of              *)
(* WarehouseTemperatureMonitor (warehouse_monitor.py), the two SQLite      *)
(* tables they append to, and the three read queries of the Flask          *)
(* reporting layer (app.py).                                               *)
(*                                                                         *)
(* Temperatures are integers in tenths of a degree (25.0 C = 250).         *)
(* Time is an integer number of seconds, the resolution of SQLite's        *)
(* CURRENT_TIMESTAMP.                                                      *)
(***************************************************************************)
EXTENDS Integers, Sequences, FiniteSets, TLC

VARIABLES
    is_running,   \* self.is_running
    sensors,      \* self.sensors: sensor id -> registry entry
    readings,     \* table temperature_readings, in rowid order
    alerts,       \* table alerts, in rowid order
    threads,      \* the threads created by start_monitoring, with their position in monitoring_loop
    ticks,        \* number of passes of the while loop begun so far (all threads)
    now,          \* wall clock, in seconds
    event,        \* what the last step showed outside: the API call served and its
                  \* result, or the exception that ended a thread
    eval_in,      \* a temperature handed to the threshold rule (SpecEval)
    eval_out,     \* what the threshold rule made of it (SpecEval)
    gen           \* one call of generate_random_temperature: its sensor, branch,
                  \* draw and result (SpecGen)

vars == <<is_running, sensors, readings, alerts, threads, ticks, now, event, eval_in, eval_out, gen>>

(***************************************************************************)
(* Bounds of the model.                                                    *)
(***************************************************************************)
MaxSensors == 2     \* how many entries of default_sensors Spec registers (the first ones)
MaxThreads == 2     \* threads that may be alive at the same time
MaxTicks == 2       \* passes of the while loop begun, all threads together
MaxTime == 1        \* last second the clock reaches other than by a sleep running out
MaxHours == 1       \* largest hours argument of the history query

(***************************************************************************)
(* Program constants.                                                      *)
(***************************************************************************)
alert_threshold_high == 250
alert_threshold_low == 20
SleepSeconds == 3
SecondsPerHour == 3600

\* default_sensors, in registration order
default_sensors ==
    << <<"sensor_001", "Cold Storage Area">>,
       <<"sensor_002", "Loading Dock">>,
       <<"sensor_003", "Main Storage Area">>,
       <<"sensor_004", "Office Area">>,
       <<"sensor_005", "Shipping Department">> >>

\* the sensor ids of default_sensors, in its order
DefaultOrder == [k \in 1..Len(default_sensors) |-> default_sensors[k][1]]

DefaultIds == {DefaultOrder[k] : k \in 1..Len(default_sensors)}

\* the keys of self.sensors
SensorIds == DOMAIN sensors

\* the keys of self.sensors in iteration (= insertion) order
SensorOrder == SelectSeq(DefaultOrder, LAMBDA s : s \in SensorIds)

NumSensors == Len(SensorOrder)

\* the location default_sensors registers for a sensor id
RegisteredLocation(sensor_id) ==
    default_sensors[CHOOSE k \in 1..Len(default_sensors) : default_sensors[k][1] = sensor_id][2]

\* setup_default_sensors registering the first n entries of default_sensors
Registry(n) ==
    [s \in {DefaultOrder[k] : k \in 1..n} |->
        [location |-> RegisteredLocation(s), last_reading |-> <<>>, is_active |-> TRUE]]

\* how many sensors the bounded specifications register
RegisteredCount == IF MaxSensors < Len(default_sensors) THEN MaxSensors ELSE Len(default_sensors)

\* a sensor id no sensor is registered under (a caller of the history query may pass any id)
UnknownSensor == "sensor_999"

(***************************************************************************)
(* generate_random_temperature                                             *)
(***************************************************************************)
\* base_temps.get(sensor_id, (15.0, 25.0)), in tenths
base_temps(sensor_id) ==
    CASE sensor_id = "sensor_001" -> <<10, 100>>
      [] sensor_id = "sensor_002" -> <<150, 300>>
      [] sensor_id = "sensor_003" -> <<180, 280>>
      [] sensor_id = "sensor_004" -> <<200, 240>>
      [] sensor_id = "sensor_005" -> <<160, 260>>
      [] OTHER -> <<150, 250>>

\* round(temperature, 1) of a draw given in hundredths: the nearest tenth; a draw
\* that lies half way is a binary float just below or just above the half, so
\* either neighbour can come out
round1(h) ==
    LET q == h \div 10
        r == h % 10
    IN  IF r < 5 THEN {q} ELSE IF r > 5 THEN {q + 1} ELSE {q, q + 1}

\* random.uniform(a, b) for a, b in tenths: the draws, in hundredths
uniform(a, b) == (a * 10)..(b * 10)

\* the draws of the normal branch
NormalDraws(sensor_id) == uniform(base_temps(sensor_id)[1], base_temps(sensor_id)[2])

\* an extreme branch drawing from the thresholds on
ExtremeDraws_from_thresholds == uniform(250, 350) \cup uniform(-50, 20)

\* the draws of the extreme branch (random.random() < 0.3)
ExtremeDraws == uniform(260, 350) \cup uniform(-50, 10)

\* every value generate_random_temperature(sensor_id) can return, in tenths
generate_random_temperature(sensor_id) ==
    UNION {round1(h) : h \in NormalDraws(sensor_id) \cup ExtremeDraws}

\* the same, computed once per sensor
GenerateTable == [s \in DefaultIds |-> generate_random_temperature(s)]

\* the draws the monitoring threads are run with: per sensor a few of the
\* values the generator can return (a low alert, the low threshold itself, a
\* high alert, the high threshold itself, an ordinary value)
SampleTemps(sensor_id) ==
    CASE sensor_id = "sensor_001" -> {19, 20}
      [] sensor_id = "sensor_002" -> {251}
      [] sensor_id = "sensor_003" -> {250}
      [] sensor_id = "sensor_004" -> {223, 300}
      [] sensor_id = "sensor_005" -> {260}
      [] OTHER -> {}

Draws(sensor_id) == GenerateTable[sensor_id] \cap SampleTemps(sensor_id)

\* one call of generate_random_temperature: extreme tells whether
\* random.random() < 0.3 held, draw is the temperature before round(), in
\* hundredths, out the value returned, in tenths, once returned is TRUE
Drawn(sensor_id, extreme, draw) ==
    [sensor_id |-> sensor_id, extreme |-> extreme, draw |-> draw,
     returned |-> FALSE, out |-> 0]

NoDraw == Drawn("", FALSE, 0)

(***************************************************************************)
(* check_alerts: the threshold rule                                        *)
(***************************************************************************)
NoAlert == "NONE"

NotEvaluated == "NOT_EVALUATED"

\* check_alerts with >= in place of > in its first test
AlertType_ge(temperature) ==
    IF temperature >= alert_threshold_high THEN "HIGH_TEMPERATURE"
    ELSE IF temperature < alert_threshold_low THEN "LOW_TEMPERATURE"
    ELSE NoAlert

\* check_alerts with <= in place of < in its second test
AlertType_le(temperature) ==
    IF temperature > alert_threshold_high THEN "HIGH_TEMPERATURE"
    ELSE IF temperature <= alert_threshold_low THEN "LOW_TEMPERATURE"
    ELSE NoAlert

\* the alert type check_alerts stores for a temperature, NoAlert when it stores none
AlertType(temperature) ==
    IF temperature > alert_threshold_high THEN "HIGH_TEMPERATURE"
    ELSE IF temperature < alert_threshold_low THEN "LOW_TEMPERATURE"
    ELSE NoAlert

(***************************************************************************)
(* Storage rows                                                            *)
(***************************************************************************)
\* store_reading taking the location of the first registered sensor
ReadingRow_first_location(sensor_id, temperature) ==
    [sensor_id |-> sensor_id, temperature |-> temperature,
     timestamp |-> now, location |-> sensors[SensorOrder[1]].location]

\* INSERT INTO temperature_readings (sensor_id, temperature, location);
\* timestamp DEFAULT CURRENT_TIMESTAMP
ReadingRow(sensor_id, temperature) ==
    [sensor_id |-> sensor_id, temperature |-> temperature,
     timestamp |-> now, location |-> sensors[sensor_id].location]

\* INSERT INTO alerts (sensor_id, alert_type, temperature);
\* timestamp DEFAULT CURRENT_TIMESTAMP, resolved DEFAULT FALSE
AlertRow(sensor_id, alert_type, temperature) ==
    [sensor_id |-> sensor_id, alert_type |-> alert_type, temperature |-> temperature,
     timestamp |-> now, resolved |-> FALSE]

(***************************************************************************)
(* Threads                                                                 *)
(***************************************************************************)
ThreadIds == 1..MaxThreads

\* a slot holding no live thread
NoThread == [pc |-> "none", k |-> 0, temperature |-> 0, wake |-> 0]

\* positions inside monitoring_loop
InLoop == {"while", "generate", "store_reading", "check_alerts", "update", "sleep"}

\* positions inside the for loop over the sensors (a tick in flight)
InTick == {"generate", "store_reading", "check_alerts", "update"}

\* the for loop walking the sensors from the last registered to the first
CurrentSensor_reversed(w) == SensorOrder[NumSensors + 1 - threads[w].k]

\* the sensor_id of the for loop
CurrentSensor(w) == SensorOrder[threads[w].k]

\* an event: op is the API call ("stop", "current", "history", "alerts"),
\* "error" for an exception ending a thread, "none" otherwise
Call(op) == [op |-> op, again |-> FALSE, sensor_id |-> "", hours |-> 0, rows |-> <<>>]

NoCall == Call("none")

\* a query has run its SELECT and its response has not left yet. The monitor
\* and the other requests do meanwhile what they do after it has left, so
\* their steps are taken from there.
Serving == event.op \in {"current", "history", "alerts"}

(***************************************************************************)
(* Initial state: after WarehouseTemperatureMonitor() has been constructed *)
(***************************************************************************)
\* (the registry's current_temp, a random value that nothing reads, is left out)
Init ==
    /\ is_running = FALSE
    /\ sensors = Registry(RegisteredCount)
    /\ readings = <<>>
    /\ alerts = <<>>
    /\ threads = [w \in ThreadIds |-> NoThread]
    /\ ticks = 0
    /\ now = 0
    /\ event = NoCall
    /\ eval_in = 0
    /\ eval_out = NotEvaluated
    /\ gen = NoDraw

(***************************************************************************)
(* start_monitoring / stop_monitoring                                      *)
(***************************************************************************)
FreeSlots == {w \in ThreadIds : threads[w].pc = "none"}

\* start_monitoring: sets the flag and starts a new thread, whatever the flag was
start_monitoring ==
    /\ ~Serving
    /\ FreeSlots # {}
    /\ is_running' = TRUE
    /\ LET w == CHOOSE x \in FreeSlots : \A y \in FreeSlots : x <= y
       IN  threads' = [threads EXCEPT ![w] = [pc |-> "while", k |-> 0, temperature |-> 0, wake |-> 0]]
    /\ event' = NoCall
    /\ UNCHANGED <<sensors, readings, alerts, ticks, now, eval_in, eval_out, gen>>

\* stop_monitoring flipping the flag instead of clearing it
stop_monitoring_toggle ==
    /\ ~Serving
    /\ is_running' = ~is_running
    /\ event' = [Call("stop") EXCEPT !.again = (event.op = "stop")]
    /\ UNCHANGED <<sensors, readings, alerts, threads, ticks, now, eval_in, eval_out, gen>>

\* stop_monitoring: clears the flag
stop_monitoring ==
    /\ ~Serving
    /\ is_running' = FALSE
    /\ event' = [Call("stop") EXCEPT !.again = (event.op = "stop")]
    /\ UNCHANGED <<sensors, readings, alerts, threads, ticks, now, eval_in, eval_out, gen>>

(***************************************************************************)
(* monitoring_loop, one action per statement                               *)
(***************************************************************************)
Internal == /\ event' = NoCall
            /\ UNCHANGED <<eval_in, eval_out, gen>>

\* a loop that never tests the flag (while True)
LoopTest_forever(w) ==
    /\ ~Serving
    /\ threads[w].pc = "while"
    /\ IF ticks < MaxTicks
       THEN /\ ticks' = ticks + 1
            /\ threads' = [threads EXCEPT ![w].pc = "generate", ![w].k = 1]
       ELSE /\ ticks' = ticks
            /\ threads' = threads
    /\ event' = NoCall
    /\ UNCHANGED <<is_running, sensors, readings, alerts, now, eval_in, eval_out, gen>>

\* while self.is_running: enter the for loop, or leave the loop and end the thread
LoopTest(w) ==
    /\ ~Serving
    /\ threads[w].pc = "while"
    /\ IF is_running
       THEN /\ ticks < MaxTicks
            /\ ticks' = ticks + 1
            /\ threads' = [threads EXCEPT ![w].pc = "generate", ![w].k = 1]
       ELSE /\ ticks' = ticks
            /\ threads' = [threads EXCEPT ![w] = NoThread]
    /\ Internal
    /\ UNCHANGED <<is_running, sensors, readings, alerts, now>>

\* temperature = self.generate_random_temperature(sensor_id)
Generate(w) ==
    /\ ~Serving
    /\ threads[w].pc = "generate"
    /\ \E t \in Draws(CurrentSensor(w)) :
          threads' = [threads EXCEPT ![w].pc = "store_reading", ![w].temperature = t]
    /\ Internal
    /\ UNCHANGED <<is_running, sensors, readings, alerts, ticks, now>>

\* store_reading writing the table anew (INSERT OR REPLACE on a fixed key)
\* instead of appending a row
StoreReading_replace(w) ==
    /\ ~Serving
    /\ threads[w].pc = "store_reading"
    /\ readings' = << ReadingRow(CurrentSensor(w), threads[w].temperature) >>
    /\ threads' = [threads EXCEPT ![w].pc = "check_alerts"]
    /\ event' = NoCall
    /\ UNCHANGED <<is_running, sensors, alerts, ticks, now, eval_in, eval_out, gen>>

\* self.store_reading(sensor_id, temperature), the INSERT succeeding
StoreReading(w) ==
    /\ ~Serving
    /\ threads[w].pc = "store_reading"
    /\ readings' = Append(readings, ReadingRow(CurrentSensor(w), threads[w].temperature))
    /\ threads' = [threads EXCEPT ![w].pc = "check_alerts"]
    /\ Internal
    /\ UNCHANGED <<is_running, sensors, alerts, ticks, now>>

\* check_alerts calling store_alert twice for a temperature out of range
CheckAlerts_twice(w) ==
    /\ ~Serving
    /\ threads[w].pc = "check_alerts"
    /\ LET kind == AlertType(threads[w].temperature)
           row == AlertRow(CurrentSensor(w), kind, threads[w].temperature)
       IN  alerts' = IF kind = NoAlert THEN alerts ELSE Append(Append(alerts, row), row)
    /\ threads' = [threads EXCEPT ![w].pc = "update"]
    /\ event' = NoCall
    /\ UNCHANGED <<is_running, sensors, readings, ticks, now, eval_in, eval_out, gen>>

\* self.check_alerts(sensor_id, temperature), the INSERT (if any) succeeding
CheckAlerts(w) ==
    /\ ~Serving
    /\ threads[w].pc = "check_alerts"
    /\ LET kind == AlertType(threads[w].temperature)
       IN  alerts' = IF kind = NoAlert THEN alerts
                     ELSE Append(alerts, AlertRow(CurrentSensor(w), kind, threads[w].temperature))
    /\ threads' = [threads EXCEPT ![w].pc = "update"]
    /\ Internal
    /\ UNCHANGED <<is_running, sensors, readings, ticks, now>>

\* sqlite3 raises in store_reading or in store_alert (database locked, disk
\* full, ...): nothing in monitoring_loop catches it, the thread ends
StorageError(w) ==
    /\ ~Serving
    /\ \/ threads[w].pc = "store_reading"
       \/ /\ threads[w].pc = "check_alerts"
          /\ AlertType(threads[w].temperature) # NoAlert
    /\ threads' = [threads EXCEPT ![w] = NoThread]
    /\ event' = Call("error")
    /\ UNCHANGED <<eval_in, eval_out, gen>>
    /\ UNCHANGED <<is_running, sensors, readings, alerts, ticks, now>>

\* the for loop testing self.is_running after each sensor and leaving at once
UpdateRegistry_break(w) ==
    /\ ~Serving
    /\ threads[w].pc = "update"
    /\ sensors' = [sensors EXCEPT ![CurrentSensor(w)].last_reading =
                      << [temperature |-> threads[w].temperature, timestamp |-> now] >>]
    /\ threads' = IF ~is_running
                  THEN [threads EXCEPT ![w] = NoThread]
                  ELSE IF threads[w].k < NumSensors
                  THEN [threads EXCEPT ![w].pc = "generate", ![w].k = @ + 1, ![w].temperature = 0]
                  ELSE [threads EXCEPT ![w] = [pc |-> "sleep", k |-> 0, temperature |-> 0,
                                               wake |-> now + SleepSeconds]]
    /\ event' = NoCall
    /\ UNCHANGED <<is_running, readings, alerts, ticks, now, eval_in, eval_out, gen>>

\* self.sensors[sensor_id]['last_reading'] = {...}; then the next sensor, or
\* after the last one time.sleep(3)
UpdateRegistry(w) ==
    /\ ~Serving
    /\ threads[w].pc = "update"
    /\ sensors' = [sensors EXCEPT ![CurrentSensor(w)].last_reading =
                      << [temperature |-> threads[w].temperature, timestamp |-> now] >>]
    /\ threads' = IF threads[w].k < NumSensors
                  THEN [threads EXCEPT ![w].pc = "generate", ![w].k = @ + 1, ![w].temperature = 0]
                  ELSE [threads EXCEPT ![w] = [pc |-> "sleep", k |-> 0, temperature |-> 0,
                                               wake |-> now + SleepSeconds]]
    /\ Internal
    /\ UNCHANGED <<is_running, readings, alerts, ticks, now>>

\* time.sleep(3) returns: three seconds or more have passed since it was called
Wake(w) ==
    /\ ~Serving
    /\ threads[w].pc = "sleep"
    /\ now' = IF now < threads[w].wake THEN threads[w].wake ELSE now
    /\ threads' = [threads EXCEPT ![w].pc = "while", ![w].wake = 0]
    /\ Internal
    /\ UNCHANGED <<is_running, sensors, readings, alerts, ticks>>

\* a second passes
ClockTick ==
    /\ ~Serving
    /\ now < MaxTime
    /\ now' = now + 1
    /\ Internal
    /\ UNCHANGED <<is_running, sensors, readings, alerts, threads, ticks>>

(***************************************************************************)
(* The read queries of app.py                                              *)
(***************************************************************************)
\* SELECT sensor_id, MAX(timestamp) ... GROUP BY sensor_id
MaxTimestamp(sensor_id) ==
    LET ts == {readings[i].timestamp : i \in {j \in 1..Len(readings) : readings[j].sensor_id = sensor_id}}
    IN  CHOOSE m \in ts : \A t \in ts : t <= m

\* the rows of readings from index i on that carry their sensor's
\* MAX(timestamp), as the query selects them
RECURSIVE LatestFrom(_)

LatestFrom(i) ==
    IF i > Len(readings) THEN <<>>
    ELSE IF readings[i].timestamp = MaxTimestamp(readings[i].sensor_id)
         THEN << [sensor_id |-> readings[i].sensor_id, temperature |-> readings[i].temperature,
                  location |-> readings[i].location, timestamp |-> readings[i].timestamp] >>
              \o LatestFrom(i + 1)
         ELSE LatestFrom(i + 1)

\* /api/temperature/current: the rows joined to their sensor's MAX(timestamp)
\* (no ORDER BY: given here in rowid order)
CurrentRows == LatestFrom(1)

get_current_temperatures ==
    /\ ~Serving
    /\ event' = [Call("current") EXCEPT !.rows = CurrentRows]
    /\ UNCHANGED <<is_running, sensors, readings, alerts, threads, ticks, now, eval_in, eval_out, gen>>

\* the history query without its sensor_id = ? condition
HistoryIdx_any_sensor(sensor_id, hours) ==
    IF hours < 0 THEN {}
    ELSE {i \in 1..Len(readings) : readings[i].timestamp >= now - hours * SecondsPerHour}

\* datetime('now', '-<hours> hours'): a negative hours gives the modifier
\* '--1 hours', which SQLite rejects: the result is NULL and no row compares >= NULL
HistoryIdx(sensor_id, hours) ==
    IF hours < 0 THEN {}
    ELSE {i \in 1..Len(readings) :
            /\ readings[i].sensor_id = sensor_id
            /\ readings[i].timestamp >= now - hours * SecondsPerHour}

\* ORDER BY timestamp: every order of the selected rows that ascends by
\* timestamp (rows of equal timestamp come in an order SQL leaves open)
HistoryOrders(sensor_id, hours) ==
    LET idx == HistoryIdx(sensor_id, hours)
        n == Cardinality(idx)
    IN  {o \in [1..n -> idx] :
            /\ \A a, b \in 1..n : a # b => o[a] # o[b]
            /\ \A a, b \in 1..n : a < b => readings[o[a]].timestamp <= readings[o[b]].timestamp}

get_temperature_history ==
    /\ ~Serving
    /\ \E sensor_id \in SensorIds \cup {UnknownSensor}, hours \in (-1)..MaxHours :
         \E o \in HistoryOrders(sensor_id, hours) :
            event' = [Call("history") EXCEPT
                            !.sensor_id = sensor_id, !.hours = hours,
                            !.rows = [i \in 1..Len(o) |->
                                        [temperature |-> readings[o[i]].temperature,
                                         timestamp |-> readings[o[i]].timestamp]]]
    /\ UNCHANGED <<is_running, sensors, readings, alerts, threads, ticks, now, eval_in, eval_out, gen>>

\* the active alerts under ORDER BY timestamp without DESC
ActiveOrders_ascending ==
    LET idx == {i \in 1..Len(alerts) : alerts[i].resolved = FALSE}
        n == Cardinality(idx)
    IN  {o \in [1..n -> idx] :
            /\ \A a, b \in 1..n : a # b => o[a] # o[b]
            /\ \A a, b \in 1..n : a < b => alerts[o[a]].timestamp <= alerts[o[b]].timestamp}

\* WHERE resolved = FALSE ORDER BY timestamp DESC: every order of the
\* unresolved alerts that descends by timestamp
ActiveOrders ==
    LET idx == {i \in 1..Len(alerts) : alerts[i].resolved = FALSE}
        n == Cardinality(idx)
    IN  {o \in [1..n -> idx] :
            /\ \A a, b \in 1..n : a # b => o[a] # o[b]
            /\ \A a, b \in 1..n : a < b => alerts[o[a]].timestamp >= alerts[o[b]].timestamp}

\* an active-alerts query that marks the alerts it returns as resolved
get_active_alerts_acknowledging ==
    /\ ~Serving
    /\ \E o \in ActiveOrders :
         event' = [Call("alerts") EXCEPT
                         !.rows = [i \in 1..Len(o) |->
                                     [sensor_id |-> alerts[o[i]].sensor_id,
                                      alert_type |-> alerts[o[i]].alert_type,
                                      temperature |-> alerts[o[i]].temperature,
                                      timestamp |-> alerts[o[i]].timestamp]]]
    /\ alerts' = [i \in 1..Len(alerts) |-> [alerts[i] EXCEPT !.resolved = TRUE]]
    /\ UNCHANGED <<is_running, sensors, readings, threads, ticks, now, eval_in, eval_out, gen>>

get_active_alerts ==
    /\ ~Serving
    /\ \E o \in ActiveOrders :
         event' = [Call("alerts") EXCEPT
                         !.rows = [i \in 1..Len(o) |->
                                     [sensor_id |-> alerts[o[i]].sensor_id,
                                      alert_type |-> alerts[o[i]].alert_type,
                                      temperature |-> alerts[o[i]].temperature,
                                      timestamp |-> alerts[o[i]].timestamp]]]
    /\ UNCHANGED <<is_running, sensors, readings, alerts, threads, ticks, now, eval_in, eval_out, gen>>

\* return jsonify(...): the response leaves
Respond ==
    /\ Serving
    /\ event' = NoCall
    /\ UNCHANGED <<is_running, sensors, readings, alerts, threads, ticks, now, eval_in, eval_out, gen>>

(***************************************************************************)
(* Specification                                                           *)
(***************************************************************************)
Next ==
    \/ start_monitoring
    \/ stop_monitoring
    \/ \E w \in ThreadIds : LoopTest(w)
    \/ \E w \in ThreadIds : Generate(w)
    \/ \E w \in ThreadIds : StoreReading(w)
    \/ \E w \in ThreadIds : CheckAlerts(w)
    \/ \E w \in ThreadIds : StorageError(w)
    \/ \E w \in ThreadIds : UpdateRegistry(w)
    \/ \E w \in ThreadIds : Wake(w)
    \/ ClockTick
    \/ get_current_temperatures
    \/ get_temperature_history
    \/ get_active_alerts
    \/ Respond

Spec == Init /\ [][Next]_vars

(***************************************************************************)
(* The monitor as its __main__ block runs it: every entry of               *)
(* default_sensors is registered, start_monitoring is called once on a     *)
(* fresh monitor, stop_monitoring may follow, the queries are not served   *)
(***************************************************************************)
InitMain ==
    /\ is_running = FALSE
    /\ sensors = Registry(Len(default_sensors))
    /\ readings = <<>>
    /\ alerts = <<>>
    /\ threads = [w \in ThreadIds |-> NoThread]
    /\ ticks = 0
    /\ now = 0
    /\ event = NoCall
    /\ eval_in = 0
    /\ eval_out = NotEvaluated
    /\ gen = NoDraw

StartMain ==
    /\ ~is_running
    /\ ticks = 0
    /\ FreeSlots = ThreadIds
    /\ start_monitoring

NextMain ==
    \/ StartMain
    \/ stop_monitoring
    \/ \E w \in ThreadIds : LoopTest(w)
    \/ \E w \in ThreadIds : Generate(w)
    \/ \E w \in ThreadIds : StoreReading(w)
    \/ \E w \in ThreadIds : CheckAlerts(w)
    \/ \E w \in ThreadIds : StorageError(w)
    \/ \E w \in ThreadIds : UpdateRegistry(w)
    \/ \E w \in ThreadIds : Wake(w)
    \/ ClockTick

SpecMain == InitMain /\ [][NextMain]_vars

(***************************************************************************)
(* The threshold rule on its own, over every temperature the generator can *)
(* return and a margin around them                                         *)
(***************************************************************************)
EvalTemperatures == (-60)..360

InitEval ==
    /\ is_running = FALSE
    /\ sensors = Registry(RegisteredCount)
    /\ readings = <<>>
    /\ alerts = <<>>
    /\ threads = [w \in ThreadIds |-> NoThread]
    /\ ticks = 0
    /\ now = 0
    /\ event = NoCall
    /\ eval_in \in EvalTemperatures
    /\ eval_out = NotEvaluated
    /\ gen = NoDraw

Evaluate ==
    /\ eval_out = NotEvaluated
    /\ eval_out' = AlertType(eval_in)
    /\ UNCHANGED <<is_running, sensors, readings, alerts, threads, ticks, now, event, eval_in, gen>>

SpecEval == InitEval /\ [][Evaluate]_vars

(***************************************************************************)
(* The monitor driven by a caller that calls start_monitoring only while   *)
(* is_running is False                                                     *)
(***************************************************************************)
StartWhenStopped ==
    /\ ~is_running
    /\ start_monitoring

NextStopped ==
    \/ StartWhenStopped
    \/ stop_monitoring
    \/ \E w \in ThreadIds : LoopTest(w)
    \/ \E w \in ThreadIds : Generate(w)
    \/ \E w \in ThreadIds : StoreReading(w)
    \/ \E w \in ThreadIds : CheckAlerts(w)
    \/ \E w \in ThreadIds : StorageError(w)
    \/ \E w \in ThreadIds : UpdateRegistry(w)
    \/ \E w \in ThreadIds : Wake(w)
    \/ ClockTick
    \/ get_current_temperatures
    \/ get_temperature_history
    \/ get_active_alerts
    \/ Respond

SpecStopped == Init /\ [][NextStopped]_vars

(***************************************************************************)
(* The monitor on its own (no queries), with every live thread scheduled   *)
(* again and again: a thread that can take a step eventually takes one.    *)
(* Nothing obliges a caller to call start_monitoring or stop_monitoring.   *)
(***************************************************************************)
ThreadStep(w) ==
    \/ LoopTest(w)
    \/ Generate(w)
    \/ StoreReading(w)
    \/ CheckAlerts(w)
    \/ StorageError(w)
    \/ UpdateRegistry(w)
    \/ Wake(w)

NextMonitor ==
    \/ start_monitoring
    \/ stop_monitoring
    \/ \E w \in ThreadIds : ThreadStep(w)
    \/ ClockTick

SpecFair ==
    /\ Init
    /\ [][NextMonitor]_vars
    /\ \A w \in ThreadIds : WF_vars(ThreadStep(w))

(***************************************************************************)
(* generate_random_temperature on its own: every registered sensor and an  *)
(* unregistered one, both branches, every draw in hundredths               *)
(***************************************************************************)
InitGen ==
    /\ is_running = FALSE
    /\ sensors = Registry(Len(default_sensors))
    /\ readings = <<>>
    /\ alerts = <<>>
    /\ threads = [w \in ThreadIds |-> NoThread]
    /\ ticks = 0
    /\ now = 0
    /\ event = NoCall
    /\ eval_in = 0
    /\ eval_out = NotEvaluated
    /\ \E s \in DefaultIds \cup {UnknownSensor} :
         \/ \E h \in NormalDraws(s) : gen = Drawn(s, FALSE, h)
         \/ \E h \in ExtremeDraws : gen = Drawn(s, TRUE, h)

\* return round(temperature, 1)
RoundDraw ==
    /\ ~gen.returned
    /\ \E t \in round1(gen.draw) : gen' = [gen EXCEPT !.returned = TRUE, !.out = t]
    /\ UNCHANGED <<is_running, sensors, readings, alerts, threads, ticks, now, event, eval_in, eval_out>>

SpecGen == InitGen /\ [][RoundDraw]_vars

(***************************************************************************)
(* Properties                                                              *)
(***************************************************************************)
\* the threads that are executing monitoring_loop
Looping == {w \in ThreadIds : threads[w].pc \in InLoop}

\* the rows of a table that belong to a sensor, by index
ReadingsOf(sensor_id) == {i \in 1..Len(readings) : readings[i].sensor_id = sensor_id}

IsPrefix(a, b) == Len(a) <= Len(b) /\ \A i \in 1..Len(a) : a[i] = b[i]

\* how often a row occurs in a sequence of rows
Occurrences(rows, r) == Cardinality({i \in 1..Len(rows) : rows[i] = r})

\* the order in which the sensors are registered, as the specification lists them
RegistrationOrder ==
    <<"sensor_001", "sensor_002", "sensor_003", "sensor_004", "sensor_005">>

\* C1: start() while Running spawns no second tick stream: at most one
\* thread is executing monitoring_loop in every reachable state.
C1_SingleTickStream == Cardinality(Looping) <= 1

\* C2: a storage failure for one sensor does not end the loop: the thread
\* that was storing a reading or an alert is still in monitoring_loop after
\* the step, whatever the step was.
C2_FailureIsolated ==
    [][\A w \in ThreadIds :
          threads[w].pc \in {"store_reading", "check_alerts"} => threads'[w].pc \in InLoop]_vars

\* C3: the threshold rule gives HIGH_TEMPERATURE iff t > 25.0, LOW_TEMPERATURE
\* iff t < 2.0 and no alert otherwise, so exactly one of the three for every t.
C3_ThresholdRule ==
    eval_out # NotEvaluated =>
        /\ (eval_out = "HIGH_TEMPERATURE") <=> (eval_in > 250)
        /\ (eval_out = "LOW_TEMPERATURE") <=> (eval_in < 20)
        /\ (eval_out = NoAlert) <=> (eval_in >= 20 /\ eval_in <= 250)
        /\ eval_out \in {"HIGH_TEMPERATURE", "LOW_TEMPERATURE", NoAlert}

\* the rule has been applied at both thresholds and on either side of them
C3_Witness ==
    /\ eval_out # NotEvaluated
    /\ eval_in = 250
    /\ eval_out = NoAlert

\* C4: every stored alert is HIGH_TEMPERATURE with a temperature above 25.0
\* or LOW_TEMPERATURE with a temperature below 2.0; none has a temperature
\* in [2.0, 25.0].
C4_AlertsOutOfRange ==
    \A i \in 1..Len(alerts) :
        \/ alerts[i].alert_type = "HIGH_TEMPERATURE" /\ alerts[i].temperature > 250
        \/ alerts[i].alert_type = "LOW_TEMPERATURE" /\ alerts[i].temperature < 20

\* alerts of both kinds are stored, and a reading at the low threshold is stored too
C4_Witness ==
    /\ \E i \in 1..Len(alerts) : alerts[i].alert_type = "HIGH_TEMPERATURE"
    /\ \E i \in 1..Len(alerts) : alerts[i].alert_type = "LOW_TEMPERATURE"
    /\ \E i \in 1..Len(readings) : readings[i].temperature = 20

\* C5: a thread processes the sensors one at a time in registration order,
\* and for each sensor generates, then persists the reading, then evaluates
\* and persists the alert if there is one, then updates the registry: the
\* reading is persisted before the alert, the registry is updated after both.
C5_TickOrder ==
    [][/\ \A w \in ThreadIds :
            LET a == threads[w]
                b == threads'[w]
                s == RegistrationOrder[a.k]
            IN  a # b =>
                  /\ a.pc = "while" =>
                        b.pc = "none" \/ (b.pc = "generate" /\ b.k = 1)
                  /\ a.pc = "generate" =>
                        /\ b.pc = "store_reading" /\ b.k = a.k
                        /\ UNCHANGED <<readings, alerts, sensors>>
                  /\ a.pc = "store_reading" =>
                        \/ b.pc = "none" /\ UNCHANGED <<readings, alerts, sensors>>
                        \/ /\ b.pc = "check_alerts" /\ b.k = a.k /\ b.temperature = a.temperature
                           /\ Len(readings') = Len(readings) + 1
                           /\ readings'[Len(readings')].sensor_id = s
                           /\ readings'[Len(readings')].temperature = a.temperature
                           /\ UNCHANGED <<alerts, sensors>>
                  /\ a.pc = "check_alerts" =>
                        /\ \E i \in ReadingsOf(s) : readings[i].temperature = a.temperature
                        /\ \/ b.pc = "none" /\ UNCHANGED <<readings, alerts, sensors>>
                           \/ /\ b.pc = "update" /\ b.k = a.k /\ b.temperature = a.temperature
                              /\ UNCHANGED <<readings, sensors>>
                              /\ \/ alerts' = alerts
                                 \/ /\ Len(alerts') = Len(alerts) + 1
                                    /\ alerts'[Len(alerts')].sensor_id = s
                                    /\ alerts'[Len(alerts')].temperature = a.temperature
                  /\ a.pc = "update" =>
                        /\ \E i \in ReadingsOf(s) : readings[i].temperature = a.temperature
                        /\ a.temperature > 250 \/ a.temperature < 20 =>
                              \E i \in 1..Len(alerts) :
                                  /\ alerts[i].sensor_id = s
                                  /\ alerts[i].temperature = a.temperature
                        /\ sensors'[s].last_reading # <<>>
                        /\ sensors'[s].last_reading[1].temperature = a.temperature
                        /\ \A o \in SensorIds \ {s} : sensors'[o] = sensors[o]
                        /\ UNCHANGED <<readings, alerts>>
                        /\ IF a.k < NumSensors
                           THEN b.pc = "generate" /\ b.k = a.k + 1
                           ELSE b.pc = "sleep"
       /\ readings' # readings =>
            \E w \in ThreadIds : threads[w].pc = "store_reading" /\ threads'[w].pc = "check_alerts"
       /\ alerts' # alerts =>
            \E w \in ThreadIds : threads[w].pc = "check_alerts" /\ threads'[w].pc = "update"
       /\ sensors' # sensors =>
            \E w \in ThreadIds : threads[w].pc = "update" /\ threads'[w].pc # "update"
      ]_vars

\* a thread has gone through its whole tick: it sleeps, every registered
\* sensor has a reading and a last_reading, and an alert is stored
C5_Witness ==
    /\ \E w \in ThreadIds : threads[w].pc = "sleep"
    /\ \A s \in SensorIds : ReadingsOf(s) # {} /\ sensors[s].last_reading # <<>>
    /\ Len(alerts) >= 2

\* C6: stop() only clears the flag; a thread whose tick is in flight goes on
\* through the remaining sensors, and leaves the loop only at the test
\* between two ticks, with the flag cleared.
C6_CooperativeStop ==
    [][/\ event'.op = "stop" =>
            /\ is_running' = FALSE
            /\ UNCHANGED <<sensors, readings, alerts, threads, ticks, now>>
       /\ \A w \in ThreadIds :
            LET a == threads[w]
                b == threads'[w]
            IN  /\ (a.pc \in InLoop /\ b.pc = "none" /\ event'.op # "error") =>
                      a.pc = "while" /\ ~is_running
                /\ (a.pc \in InTick /\ ~is_running /\ a # b /\ event'.op # "error") =>
                      /\ b.pc \in InTick \cup {"sleep"}
                      /\ b.pc = "sleep" => a.k = NumSensors
                      /\ b.pc # "sleep" => b.k >= a.k
      ]_vars

\* the flag was cleared while a tick was in flight, and the thread has gone
\* on to the last sensor and updates its registry entry
C6_Witness ==
    /\ ~is_running
    /\ \E w \in ThreadIds :
          /\ threads[w].pc = "update"
          /\ threads[w].k = NumSensors
          /\ NumSensors > 1

\* C7: stop() called twice in succession: the second call leaves the state
\* as the first one left it (Stopped, the same threads, the same storage),
\* and starts no tick.
C7_StopIdempotent ==
    [][(event.op = "stop" /\ event'.op = "stop") =>
          /\ ~is_running /\ ~is_running'
          /\ UNCHANGED <<sensors, readings, alerts, threads, ticks, now>>]_vars

\* stop() has been called a second time in succession while a thread was
\* still in monitoring_loop
C7_Witness ==
    /\ event.op = "stop"
    /\ event.again
    /\ Looping # {}

\* C8: both tables are append-only: in every step (of a thread, of start,
\* of stop, of the three queries) the readings and the alerts before the
\* step are prefixes of those after it.
C8_AppendOnly ==
    [][IsPrefix(readings, readings') /\ IsPrefix(alerts, alerts')]_vars

\* rows of two ticks and alerts are stored and a query has just been served
C8_Witness ==
    /\ Len(readings) > NumSensors
    /\ Len(alerts) >= 2
    /\ Serving

\* C9: the current-reading query returns, for each sensor with a stored
\* reading, exactly one row, and it is the reading of that sensor with the
\* latest timestamp.
C9_CurrentOnePerSensor ==
    event.op = "current" =>
        \A s \in SensorIds :
            LET got == {i \in 1..Len(event.rows) : event.rows[i].sensor_id = s}
            IN  IF ReadingsOf(s) = {} THEN got = {}
                ELSE /\ Cardinality(got) = 1
                     /\ \A i \in got : \A j \in ReadingsOf(s) :
                            readings[j].timestamp <= event.rows[i].timestamp

\* C10: the history query for sensor s and hours = H returns exactly the
\* stored readings of s with timestamp >= now - H hours, in ascending order
\* of timestamp (nothing when none qualifies), and no reading of another sensor.
C10_History ==
    event.op = "history" =>
        LET want == {i \in ReadingsOf(event.sensor_id) :
                        readings[i].timestamp >= now - event.hours * 3600}
            Row(i) == [temperature |-> readings[i].temperature,
                       timestamp |-> readings[i].timestamp]
        IN  /\ Len(event.rows) = Cardinality(want)
            /\ \A i \in want :
                  Occurrences(event.rows, Row(i)) = Cardinality({j \in want : Row(j) = Row(i)})
            /\ \A a, b \in 1..Len(event.rows) :
                  a < b => event.rows[a].timestamp <= event.rows[b].timestamp

\* a history query with hours = 0 has returned some of the sensor's readings
\* and left out older ones, while another sensor has readings as recent
C10_Witness ==
    /\ event.op = "history"
    /\ event.hours = 0
    /\ Len(event.rows) >= 1
    /\ Len(event.rows) < Cardinality(ReadingsOf(event.sensor_id))
    /\ \E i \in 1..Len(readings) :
          readings[i].sensor_id # event.sensor_id /\ readings[i].timestamp >= now

\* an alert row as /api/alerts/active returns it
AlertView(i) ==
    [sensor_id |-> alerts[i].sensor_id, alert_type |-> alerts[i].alert_type,
     temperature |-> alerts[i].temperature, timestamp |-> alerts[i].timestamp]

\* C11: every stored alert has resolved = FALSE, and an active-alerts response
\* consists of exactly the stored alerts with resolved = FALSE, each as often
\* as it is stored, in descending order of timestamp
C11_ActiveAlerts ==
    /\ \A i \in 1..Len(alerts) : alerts[i].resolved = FALSE
    /\ event.op = "alerts" =>
         LET active == {i \in 1..Len(alerts) : alerts[i].resolved = FALSE}
         IN  /\ Len(event.rows) = Cardinality(active)
             /\ \A i \in active :
                  Occurrences(event.rows, AlertView(i))
                      = Cardinality({j \in active : AlertView(j) = AlertView(i)})
             /\ \A a, b \in 1..Len(event.rows) :
                  a < b => event.rows[a].timestamp >= event.rows[b].timestamp

\* an active-alerts response with alerts of two different seconds
C11_Witness ==
    /\ event.op = "alerts"
    /\ Len(event.rows) >= 2
    /\ event.rows[1].timestamp > event.rows[Len(event.rows)].timestamp

\* C12: processing one sensor s with the drawn temperature t appends, when its
\* storage calls return, exactly one reading (s, t, now, location of s) in
\* store_reading and nothing else, and in check_alerts exactly one alert
\* (s, kind, t, now, resolved = FALSE) when t is above the high or below the
\* low threshold and nothing otherwise; the other steps of the processing
\* append nothing. For sensor_004 a draw of 22.3 gives a reading located in
\* "Office Area" and no alert, a draw of 30.0 a HIGH_TEMPERATURE alert.
C12_ProcessSensor ==
    [][\A w \in ThreadIds :
         LET a == threads[w]
             b == threads'[w]
             s == RegistrationOrder[a.k]
             t == a.temperature
         IN  /\ (a.pc = "store_reading" /\ b.pc = "check_alerts") =>
                   /\ readings' = Append(readings,
                                         [sensor_id |-> s, temperature |-> t, timestamp |-> now,
                                          location |-> RegisteredLocation(s)])
                   /\ alerts' = alerts
                   /\ s = "sensor_004" => readings'[Len(readings')].location = "Office Area"
             /\ (a.pc = "check_alerts" /\ b.pc = "update") =>
                   /\ readings' = readings
                   /\ t > alert_threshold_high =>
                        alerts' = Append(alerts,
                                         [sensor_id |-> s, alert_type |-> "HIGH_TEMPERATURE",
                                          temperature |-> t, timestamp |-> now, resolved |-> FALSE])
                   /\ t < alert_threshold_low =>
                        alerts' = Append(alerts,
                                         [sensor_id |-> s, alert_type |-> "LOW_TEMPERATURE",
                                          temperature |-> t, timestamp |-> now, resolved |-> FALSE])
                   /\ (t <= alert_threshold_high /\ t >= alert_threshold_low) => alerts' = alerts
                   /\ (s = "sensor_004" /\ t = 223) => alerts' = alerts
                   /\ (s = "sensor_004" /\ t = 300) =>
                        /\ Len(alerts') = Len(alerts) + 1
                        /\ alerts'[Len(alerts')].alert_type = "HIGH_TEMPERATURE"
             /\ (a.pc \in {"generate", "update"} /\ b # a) =>
                   /\ readings' = readings
                   /\ alerts' = alerts
      ]_vars

\* sensor_004 has been processed twice: with 22.3 (a reading, no alert) and
\* just now with 30.0 (a reading and a HIGH_TEMPERATURE alert)
C12_Witness ==
    \E w \in ThreadIds :
        /\ threads[w].pc = "update"
        /\ CurrentSensor(w) = "sensor_004"
        /\ threads[w].temperature = 300
        /\ readings # <<>>
        /\ readings[Len(readings)].sensor_id = "sensor_004"
        /\ readings[Len(readings)].temperature = 300
        /\ readings[Len(readings)].location = "Office Area"
        /\ alerts # <<>>
        /\ alerts[Len(alerts)].sensor_id = "sensor_004"
        /\ alerts[Len(alerts)].alert_type = "HIGH_TEMPERATURE"
        /\ alerts[Len(alerts)].temperature = 300
        /\ \E i \in 1..Len(readings) :
              /\ readings[i].sensor_id = "sensor_004"
              /\ readings[i].temperature = 223
              /\ readings[i].location = "Office Area"
        /\ \A j \in 1..Len(alerts) :
              alerts[j].sensor_id = "sensor_004" => alerts[j].temperature = 300

\* C13: the sensor_id of every stored reading and of every stored alert is a
\* key of the registry, and the location of every stored reading is the
\* location the registry holds for that sensor
C13_KnownSensor ==
    /\ \A i \in 1..Len(readings) :
          /\ readings[i].sensor_id \in DOMAIN sensors
          /\ readings[i].location = sensors[readings[i].sensor_id].location
          /\ readings[i].location = RegisteredLocation(readings[i].sensor_id)
    /\ \A j \in 1..Len(alerts) : alerts[j].sensor_id \in DOMAIN sensors

\* a tick has stored a reading of each of the five sensors, under five
\* different locations, and an alert
C13_Witness ==
    /\ \A s \in DefaultIds : \E i \in 1..Len(readings) : readings[i].sensor_id = s
    /\ Cardinality({readings[i].location : i \in 1..Len(readings)}) = Len(default_sensors)
    /\ alerts # <<>>

\* C14: a temperature returned by generate_random_temperature(s) is the draw
\* rounded to the nearest tenth; from the normal branch it lies in the range
\* base_temps gives for s, from the extreme branch it lies in [26.0, 35.0] or
\* in [-5.0, 1.0] and check_alerts stores an alert for it; and it is one of
\* the values the monitoring threads draw from
C14_GeneratorRanges ==
    gen.returned =>
        /\ gen.out \in Int
        /\ 10 * gen.out - gen.draw <= 5
        /\ gen.draw - 10 * gen.out <= 5
        /\ ~gen.extreme =>
              /\ gen.out >= base_temps(gen.sensor_id)[1]
              /\ gen.out <= base_temps(gen.sensor_id)[2]
        /\ gen.extreme =>
              /\ \/ gen.out >= 260 /\ gen.out <= 350
                 \/ gen.out >= -50 /\ gen.out <= 10
              /\ gen.out > alert_threshold_high \/ gen.out < alert_threshold_low
              /\ AlertType(gen.out) \in {"HIGH_TEMPERATURE", "LOW_TEMPERATURE"}
        /\ gen.sensor_id \in DefaultIds => gen.out \in GenerateTable[gen.sensor_id]

\* an extreme draw of 0.95 for sensor_004 has been rounded up to 1.0, the
\* upper end of the low extreme range
C14_Witness ==
    /\ gen.sensor_id = "sensor_004"
    /\ gen.extreme
    /\ gen.draw = 95
    /\ gen.returned
    /\ gen.out = 10

\* C15: a step that serves one of the three queries (current readings,
\* history, active alerts) leaves the stored readings, the stored alerts, the
\* registry, is_running and the monitoring threads as they are, whatever the
\* threads are in the middle of; so does the step in which its response leaves
C15_QueriesReadOnly ==
    [][(event'.op \in {"current", "history", "alerts"} \/ event.op \in {"current", "history", "alerts"}) =>
          /\ readings' = readings
          /\ alerts' = alerts
          /\ sensors' = sensors
          /\ is_running' = is_running
          /\ threads' = threads
      ]_vars

\* an active-alerts query is answered while one thread is between storing a
\* reading and checking it and another is inside its tick as well
C15_Witness ==
    /\ event.op = "alerts"
    /\ event.rows # <<>>
    /\ is_running
    /\ \E w \in ThreadIds : threads[w].pc = "check_alerts"
    /\ Cardinality({w \in ThreadIds : threads[w].pc \in InTick}) = 2

\* the threads that are inside a tick (the for loop over the sensors)
Ticking == {w \in ThreadIds : threads[w].pc \in InTick}

\* C16: when start_monitoring is only called while is_running is False, no
\* two threads are inside a tick at the same time
C16_NoConcurrentTick == Cardinality(Ticking) <= 1

\* C17: a reading or an alert is appended only by a thread inside a tick,
\* and threads come into being only in start_monitoring, so nothing is
\* appended before the first start(); and if from some point on is_running
\* stays False (stop() with no later start()), then, every thread being
\* scheduled fairly, eventually no thread is left in monitoring_loop and from
\* then on no reading and no alert is appended
C17_TicksOnlyWhileStarted ==
    /\ [][/\ (readings' # readings \/ alerts' # alerts) => Ticking # {}
          /\ (Looping' \ Looping # {}) => (is_running' /\ readings' = readings /\ alerts' = alerts)
          /\ (Looping = {} /\ Looping' = {}) => (readings' = readings /\ alerts' = alerts)
         ]_vars
    /\ (<>[](~is_running)) => <>[](Looping = {})

\* stop() has been called and the thread has left the loop after having
\* stored the readings of the tick that was in flight
C17_Witness ==
    /\ ~is_running
    /\ Looping = {}
    /\ ticks = 1
    /\ Len(readings) = NumSensors
    /\ event.op = "none"

\* C18: the readings of one sensor carry timestamps that strictly increase
\* in the order in which they were appended (so no two of them are equal)
C18_StrictTimestamps ==
    \A i, j \in 1..Len(readings) :
        (i < j /\ readings[i].sensor_id = readings[j].sensor_id) =>
            readings[i].timestamp < readings[j].timestamp

AlertsOf(sensor_id) == {j \in 1..Len(alerts) : alerts[j].sensor_id = sensor_id}

\* a thread is in monitoring_loop and no thread is inside the for loop over
\* the sensors
BetweenTicks ==
    /\ Ticking = {}
    /\ \E w \in ThreadIds : threads[w].pc \in {"while", "sleep"}

\* C19: whenever the worker is between ticks, all registered sensors have the
\* same number of stored readings, which is the number of ticks completed
\* (so at most the number of ticks begun), and no sensor has more alerts
\* than readings
C19_OneReadingPerTick ==
    BetweenTicks =>
        /\ \A s, t \in SensorIds : Cardinality(ReadingsOf(s)) = Cardinality(ReadingsOf(t))
        /\ \A s \in SensorIds : Cardinality(ReadingsOf(s)) <= ticks
        /\ \A s \in SensorIds : Cardinality(AlertsOf(s)) <= Cardinality(ReadingsOf(s))

\* the index of the reading of a sensor that was appended last
LastReadingOf(sensor_id) ==
    CHOOSE i \in ReadingsOf(sensor_id) : \A j \in ReadingsOf(sensor_id) : j <= i

\* C20: the registry's last_reading agrees with storage: a sensor without a
\* stored reading has none; a last_reading that is present carries the
\* temperature of a stored reading of its sensor; whenever the worker is
\* between ticks, every sensor with stored readings has a last_reading, with
\* the temperature of the reading of that sensor appended last; and the
\* registry holds the sensors and locations it was initialized with
C20_CacheConsistent ==
    /\ \A s \in DOMAIN sensors :
          /\ ReadingsOf(s) = {} => sensors[s].last_reading = <<>>
          /\ sensors[s].last_reading # <<>> =>
                \E i \in ReadingsOf(s) :
                    readings[i].temperature = sensors[s].last_reading[1].temperature
          /\ (BetweenTicks /\ ReadingsOf(s) # {}) =>
                /\ sensors[s].last_reading # <<>>
                /\ sensors[s].last_reading[1].temperature
                      = readings[LastReadingOf(s)].temperature
          /\ sensors[s].location = RegisteredLocation(s)
    /\ DOMAIN sensors \in {DOMAIN Registry(RegisteredCount), DefaultIds}

====
